---- MODULE Spec2Model ----
(***************************************************************************)
(* Model of alphacsc/update_d_multi.py: the projected-gradient update of   *)
(* rank-1 atoms (update_uv), its proximal operator (prox_uv), the cached   *)
(* statistics (_get_d_update_constants) and the two gradient paths         *)
(* (_gradient_d, _dense_transpose_convolve, _gradient_uv).                 *)
(*                                                                         *)
(* Numbers.  numpy computes in IEEE-754 binary64: every +, -, *, / and     *)
(* sqrt returns the exact result rounded to the nearest value with a       *)
(* 53-bit significand, ties to even.  A number is modelled as <<m, e>>,    *)
(* standing for m * 2^e, in canonical form (m odd, or <<0, 0>>), and every *)
(* operation takes the significand width p it rounds to: p = Precision is  *)
(* the floating-point arithmetic of the program at a reduced width, p = 0  *)
(* is exact arithmetic (no rounding).  Overflow, underflow and NaN are out *)
(* of reach of the bounded inputs and are not modelled.                    *)
(*                                                                         *)
(* Arrays are sequences (1-based): Z[k][i][t], X[i][p][t], uv[k][j],       *)
(* D[k][p][t].                                                             *)
(***************************************************************************)
EXTENDS Integers, Sequences, FiniteSets, TLC

\* Significand width of the modelled floating-point format (binary64: 53).
Precision == 5

----------------------------------------------------------------------------
(* Binary floating-point arithmetic *)

Abs(n) == IF n < 0 THEN -n ELSE n

Sign(n) == IF n < 0 THEN -1 ELSE IF n = 0 THEN 0 ELSE 1

RECURSIVE BitLen(_)
BitLen(a) == IF a = 0 THEN 0 ELSE 1 + BitLen(a \div 2)

RECURSIVE Canon(_, _)
Canon(m, e) ==
    IF m = 0 THEN <<0, 0>>
    ELSE IF m % 2 = 0 THEN Canon(m \div 2, e + 1)
    ELSE <<m, e>>

\* m * 2^e rounded to p significant bits, nearest, ties to even (p = 0: exact).
Rnd(p, m, e) ==
    LET a == Abs(m)
        L == BitLen(a)
    IN  IF p = 0 \/ L <= p THEN Canon(m, e)
        ELSE LET sh   == L - p
                 q    == a \div (2 ^ sh)
                 r    == a % (2 ^ sh)
                 half == 2 ^ (sh - 1)
                 up   == r > half \/ (r = half /\ q % 2 = 1)
             IN  Canon(Sign(m) * (IF up THEN q + 1 ELSE q), e + sh)

Zero == <<0, 0>>
One == <<1, 0>>
Num(n) == Canon(n, 0)
Neg(x) == <<-x[1], x[2]>>
FAbs(x) == <<Abs(x[1]), x[2]>>

\* x - y > 0, x - y = 0 or x - y < 0 as 1, 0, -1, without aligning exponents
\* that are far apart.
Cmp(x, y) ==
    LET sx == Sign(x[1])
        sy == Sign(y[1])
        tx == BitLen(Abs(x[1])) + x[2]
        ty == BitLen(Abs(y[1])) + y[2]
        e  == IF x[2] < y[2] THEN x[2] ELSE y[2]
    IN  IF sx # sy THEN (IF sx > sy THEN 1 ELSE -1)
        ELSE IF sx = 0 THEN 0
        ELSE IF tx # ty THEN (IF tx > ty THEN sx ELSE -sx)
        ELSE Sign(x[1] * (2 ^ (x[2] - e)) - y[1] * (2 ^ (y[2] - e)))

Leq(x, y) == Cmp(x, y) <= 0
Less(x, y) == Cmp(x, y) < 0

\* x + y, rounded.  When the exponents are too far apart to align, the small
\* operand only decides the direction of rounding (a sticky bit).
FAdd(p, x, y) ==
    IF x[1] = 0 THEN Rnd(p, y[1], y[2])
    ELSE IF y[1] = 0 THEN Rnd(p, x[1], x[2])
    ELSE IF p > 0 /\ x[2] - y[2] > 2 * p + 2
         THEN Rnd(p, x[1] * (2 ^ (p + 2)) + Sign(y[1]), x[2] - (p + 2))
    ELSE IF p > 0 /\ y[2] - x[2] > 2 * p + 2
         THEN Rnd(p, y[1] * (2 ^ (p + 2)) + Sign(x[1]), y[2] - (p + 2))
    ELSE LET e == IF x[2] < y[2] THEN x[2] ELSE y[2]
         IN  Rnd(p, x[1] * (2 ^ (x[2] - e)) + y[1] * (2 ^ (y[2] - e)), e)

FSub(p, x, y) == FAdd(p, x, Neg(y))

FMul(p, x, y) == Rnd(p, x[1] * y[1], x[2] + y[2])

\* x / y for y # 0, rounded: the quotient is taken to p + 2 bits or more and an
\* inexact quotient is made odd, which rounds as the exact quotient does.
FDiv(p, x, y) ==
    IF x[1] = 0 THEN Zero
    ELSE LET a  == Abs(x[1])
             b  == Abs(y[1])
             k0 == p + 2 + BitLen(b) - BitLen(a)
             k  == IF k0 < 0 THEN 0 ELSE k0
             n  == a * (2 ^ k)
             q  == n \div b
             qs == IF n % b # 0 /\ q % 2 = 0 THEN q + 1 ELSE q
         IN  Rnd(p, Sign(x[1]) * Sign(y[1]) * qs, x[2] - y[2] - k)

\* floor(sqrt(n)) by bisection on [lo, hi), lo * lo <= n < hi * hi.
RECURSIVE ISqrt(_, _, _)
ISqrt(n, lo, hi) ==
    IF hi - lo <= 1 THEN lo
    ELSE LET mid == (lo + hi) \div 2
         IN  IF mid * mid <= n THEN ISqrt(n, mid, hi) ELSE ISqrt(n, lo, mid)

\* sqrt(x) for x >= 0, rounded, by the same device as FDiv.
FSqrt(p, x) ==
    IF x[1] = 0 THEN Zero
    ELSE LET odd == x[2] % 2 # 0
             m   == IF odd THEN 2 * x[1] ELSE x[1]
             e   == IF odd THEN x[2] - 1 ELSE x[2]
             k0  == p + 2 - ((BitLen(m) - 1) \div 2)
             k   == IF k0 < 0 THEN 0 ELSE k0
             n   == m * (2 ^ (2 * k))
             s   == ISqrt(n, 0, 2 ^ ((BitLen(n) + 1) \div 2))
             ss  == IF s * s # n /\ s % 2 = 0 THEN s + 1 ELSE s
         IN  Rnd(p, ss, (e \div 2) - k)

\* np.maximum(a, b)
Maximum(a, b) == IF Less(a, b) THEN b ELSE a

----------------------------------------------------------------------------
(* Array helpers: numpy and scipy primitives on nested sequences *)

Min(a, b) == IF a < b THEN a ELSE b

\* a[::-1]
Reverse(a) == [j \in 1..Len(a) |-> a[Len(a) + 1 - j]]

\* a[:-t] for t >= 1: all but the last t entries (empty when t >= len(a)).
SliceButLast(a, t) == [j \in 1..(IF Len(a) > t THEN Len(a) - t ELSE 0) |-> a[j]]

\* a[t:] for t >= 1: all but the first t entries (empty when t >= len(a)).
SliceFrom(a, t) == [j \in 1..(IF Len(a) > t THEN Len(a) - t ELSE 0) |-> a[j + t]]

\* Sum of a 1-d array in index order (0 for an empty array).
RECURSIVE SumSeq(_, _)
SumSeq(p, a) ==
    IF Len(a) = 0 THEN Zero
    ELSE IF Len(a) = 1 THEN a[1]
    ELSE FAdd(p, SumSeq(p, SubSeq(a, 1, Len(a) - 1)), a[Len(a)])

\* (a * b).sum() for two 1-d arrays of one length.
DotSum(p, a, b) == SumSeq(p, [j \in 1..Len(a) |-> FMul(p, a[j], b[j])])

\* scipy.signal.convolve(a, b, mode='valid') for 1-d arrays: the entries of the
\* full convolution where the shorter array overlaps the longer one wholly.
convolve_valid(p, a, b) ==
    LET long  == IF Len(a) >= Len(b) THEN a ELSE b
        short == IF Len(a) >= Len(b) THEN b ELSE a
        n     == Len(short)
    IN  [t \in 1..(Len(long) - n + 1) |->
            SumSeq(p, [j \in 1..n |-> FMul(p, long[t + n - j], short[j])])]

\* scipy.signal.convolve(a, b, mode='full').
convolve_full(p, a, b) ==
    [t \in 1..(Len(a) + Len(b) - 1) |->
        SumSeq(p, [j \in 1..Len(b) |->
            IF t - j + 1 >= 1 /\ t - j + 1 <= Len(a)
            THEN FMul(p, a[t - j + 1], b[j]) ELSE Zero])]

\* Elementwise sum and difference of two (n_chan, n_times) arrays.
MatAdd(p, A, B) == [c \in 1..Len(A) |-> [t \in 1..Len(A[c]) |-> FAdd(p, A[c][t], B[c][t])]]
MatSub(p, A, B) == [c \in 1..Len(A) |-> [t \in 1..Len(A[c]) |-> FSub(p, A[c][t], B[c][t])]]

\* np.sum(ms, axis=0) of a non-empty list of (n_chan, n_times) arrays.
RECURSIVE SumMats(_, _)
SumMats(p, ms) ==
    IF Len(ms) = 1 THEN ms[1]
    ELSE MatAdd(p, SumMats(p, SubSeq(ms, 1, Len(ms) - 1)), ms[Len(ms)])

----------------------------------------------------------------------------
(* Collaborators from alphacsc/utils.py, modelled from their contracts *)

\* D[k, p, t] = uv[k, p] * uv[k, n_chan + t].
_get_D(p, uv, n_chan) ==
    [k \in 1..Len(uv) |-> [c \in 1..n_chan |->
        [t \in 1..(Len(uv[k]) - n_chan) |-> FMul(p, uv[k][c], uv[k][n_chan + t])]]]

\* construct_X_multi(Z, D): X_hat[i, p] = sum over atoms k of the full
\* convolution of Z[k, i] with D[k, p].
construct_X_multi(p, Z, D) ==
    [i \in 1..Len(Z[1]) |-> SumMats(p, [k \in 1..Len(Z) |->
        [c \in 1..Len(D[k]) |-> convolve_full(p, Z[k][i], D[k][c])]])]

----------------------------------------------------------------------------
(* _get_d_update_constants *)

\* Faulty variant of ZtX_of: lines 125-127 without the reversal zik[::-1].
ZtX_noflip(p, X, Z) ==
    [k \in 1..Len(Z) |-> SumMats(p, [i \in 1..Min(Len(Z[k]), Len(X)) |->
        [c \in 1..Len(X[i]) |-> convolve_valid(p, Z[k][i], X[i][c])]])]

\* Lines 125-127: zip(zk, X) pairs the trials of Z[k] with those of X and stops
\* at the shorter of the two.
ZtX_of(p, X, Z) ==
    [k \in 1..Len(Z) |-> SumMats(p, [i \in 1..Min(Len(Z[k]), Len(X)) |->
        [c \in 1..Len(X[i]) |-> convolve_valid(p, Reverse(Z[k][i]), X[i][c])]])]

\* Line 138: (Z[k0, i, :-t] * Z[k, i, t:]).sum()
LagPlus(p, a, b, t) == DotSum(p, SliceButLast(a, t), SliceFrom(b, t))

\* Faulty variant of LagMinus: line 139 with the slices of line 138.
LagMinus_as_plus(p, a, b, t) == DotSum(p, SliceButLast(a, t), SliceFrom(b, t))

\* Line 139: (Z[k0, i, t:] * Z[k, i, :-t]).sum()
LagMinus(p, a, b, t) == DotSum(p, SliceFrom(a, t), SliceButLast(b, t))

\* Lines 129-139: entry j (1-based; t0 + 1 = n_times_atom is lag 0) of
\* ZtZ[k0, k], accumulated over the trials of Z from 0.
ZtZ_entry(p, Z, k0, k, j, n_times_atom) ==
    SumSeq(p, <<Zero>> \o [i \in 1..Len(Z[1]) |->
        IF j = n_times_atom THEN DotSum(p, Z[k0][i], Z[k][i])
        ELSE IF j > n_times_atom THEN LagPlus(p, Z[k0][i], Z[k][i], j - n_times_atom)
        ELSE LagMinus(p, Z[k0][i], Z[k][i], n_times_atom - j)])

ZtZ_of(p, Z, n_times_atom) ==
    [k0 \in 1..Len(Z) |-> [k \in 1..Len(Z) |->
        [j \in 1..(2 * n_times_atom - 1) |-> ZtZ_entry(p, Z, k0, k, j, n_times_atom)]]]

_get_d_update_constants(p, X, Z) ==
    LET n_times_valid == Len(Z[1][1])
        n_chan        == Len(X[1])
        n_times       == Len(X[1][1])
        n_times_atom  == n_times - n_times_valid + 1
    IN  [ZtX |-> ZtX_of(p, X, Z), ZtZ |-> ZtZ_of(p, Z, n_times_atom), n_chan |-> n_chan]

----------------------------------------------------------------------------
(* Gradients *)

\* A dict that is empty or None: `if constants:` fails.
None == <<>>

_dense_transpose_convolve(p, Z, residual) ==
    [k \in 1..Len(Z) |-> SumMats(p, [i \in 1..Min(Len(Z[k]), Len(residual)) |->
        [c \in 1..Len(residual[i]) |-> convolve_valid(p, residual[i][c], Reverse(Z[k][i]))]])]

\* Lines 36-39: the cached path.
_gradient_d_cached(p, D, constants) ==
    LET ZtZ == constants.ZtZ
        g == [k \in 1..Len(ZtZ) |-> SumMats(p, [kk \in 1..Min(Len(ZtZ[k]), Len(D)) |->
                 [c \in 1..Len(D[kk]) |-> convolve_valid(p, ZtZ[k][kk], D[kk][c])]])]
    IN  [k \in 1..Len(g) |-> MatSub(p, g[k], constants.ZtX[k])]

\* Lines 41-42: the direct path.  construct_X_multi(Z, D) - X broadcasts a
\* trial axis of length 1 against the other operand's (trial counts that differ
\* with neither equal to 1 raise ValueError and are not drawn as inputs).
_gradient_d_direct(p, D, X, Z) ==
    LET X_hat    == construct_X_multi(p, Z, D)
        n        == IF Len(X_hat) > Len(X) THEN Len(X_hat) ELSE Len(X)
        residual == [i \in 1..n |->
                        MatSub(p, X_hat[IF Len(X_hat) = 1 THEN 1 ELSE i],
                                  X[IF Len(X) = 1 THEN 1 ELSE i])]
    IN  _dense_transpose_convolve(p, Z, residual)

_gradient_d(p, D, X, Z, constants) ==
    IF constants # None THEN _gradient_d_cached(p, D, constants)
    ELSE _gradient_d_direct(p, D, X, Z)

_gradient_uv(p, uv, X, Z, constants) ==
    LET n_chan == IF constants # None THEN constants.n_chan ELSE Len(X[1])
        D      == _get_D(p, uv, n_chan)
        grad_d == _gradient_d(p, D, X, Z, constants)
        n_t    == Len(uv[1]) - n_chan
        grad_u == [k \in 1..Len(uv) |-> [c \in 1..n_chan |->
                     SumSeq(p, [t \in 1..n_t |-> FMul(p, grad_d[k][c][t], uv[k][n_chan + t])])]]
        grad_v == [k \in 1..Len(uv) |-> [t \in 1..n_t |->
                     SumSeq(p, [c \in 1..n_chan |-> FMul(p, grad_d[k][c][t], uv[k][c])])]]
    IN  [k \in 1..Len(uv) |-> grad_u[k] \o grad_v[k]]

----------------------------------------------------------------------------
(* prox_uv *)

\* np.linalg.norm(uv, axis=1)[k]: sqrt of the sum of the squares of row k.
RowNorm(p, row) == FSqrt(p, SumSeq(p, [j \in 1..Len(row) |-> FMul(p, row[j], row[j])]))

\* Faulty variant of norm_uv: the squared norm, its square root forgotten.
norm_uv_squared(p, row) ==
    Maximum(One, SumSeq(p, [j \in 1..Len(row) |-> FMul(p, row[j], row[j])]))

\* Line 60, one row: np.maximum(1, norm).
norm_uv(p, row) == Maximum(One, RowNorm(p, row))

\* Faulty variant of prox_uv: uv * norm_uv in place of uv / norm_uv.
prox_uv_times(p, uv) ==
    [k \in 1..Len(uv) |-> [j \in 1..Len(uv[k]) |-> FMul(p, uv[k][j], norm_uv(p, uv[k]))]]

prox_uv(p, uv) ==
    [k \in 1..Len(uv) |-> [j \in 1..Len(uv[k]) |-> FDiv(p, uv[k][j], norm_uv(p, uv[k]))]]

----------------------------------------------------------------------------
(* update_uv, line by line *)

\* np.finfo(np.float32).eps = 2^-23
float32_eps == <<1, -23>>

\* A local name of update_uv that no statement has bound yet.
Unbound == -1

\* Faulty variant of ndarray_copy: uv_hat = uv_hat0, the caller's array itself.
ndarray_alias(h, r) == <<h, r>>

\* uv_hat0.copy(): a new array object holding the values of object r.
\* <<the heap after the call, the reference returned>>
ndarray_copy(h, r) == <<Append(h, h[r]), Len(h) + 1>>

\* Line 106, uv_hat -= step_size * grad: the new values of the array.
isub_step(p, uv, step, g) ==
    [k \in 1..Len(uv) |-> [j \in 1..Len(uv[k]) |->
        FSub(p, uv[k][j], FMul(p, step, g[k][j]))]]

\* Line 108, np.sum(abs(grad)): the entries in row-major order.
RECURSIVE Flatten(_)
Flatten(a) == IF Len(a) = 0 THEN <<>> ELSE a[1] \o Flatten(Tail(a))

sum_abs(p, g) == SumSeq(p, [j \in 1..Len(Flatten(g)) |-> FAbs(Flatten(g)[j])])

\* Faulty variant of converged, the comparison turned around: if f >= eps
converged_flipped(fv, e) == Leq(e, fv)

\* Line 109: if f <= eps
converged(fv, e) == Leq(fv, e)

\* Line 104, for ii in range(max_iter): the next index, or Unbound when the
\* range is exhausted.
range_next(i, n) ==
    LET nxt == IF i = Unbound THEN 0 ELSE i + 1
    IN  IF nxt < n THEN nxt ELSE Unbound

VARIABLES
    heap,       \* the array objects, by reference (index)
    X, Z, uv_hat0, max_iter, step_size, eps, verbose,   \* arguments (arrays by reference)
    constants, uv_hat, grad, f, ii,                     \* locals of update_uv
    pc,         \* the line about to run
    stdout,     \* what print has written
    raised,     \* the exception that ended the call, "" for none
    ret,        \* the reference returned
    args0,      \* the values of the argument arrays when the call was made
    pre,        \* per iteration run, the value of uv_hat handed to _gradient_uv
    signals,    \* per iteration run, f
    D, g_cached, g_direct   \* argument and results of the _gradient_d calls

vars == <<heap, X, Z, uv_hat0, max_iter, step_size, eps, verbose, constants,
          uv_hat, grad, f, ii, pc, stdout, raised, ret, args0, pre, signals,
          D, g_cached, g_direct>>

Vec(s) == [j \in 1..Len(s) |-> Num(s[j])]
Half == <<1, -1>>

----------------------------------------------------------------------------
(* Calls of update_uv *)

MaxIter == 3
MaxVerbose == 2

\* Codes of shape (n_atoms, 1, 2).
ZChoices ==
    { << <<Vec(<<1, 0>>)>> >>,
      << <<Vec(<<0, 0>>)>> >>,
      << <<Vec(<<1, 1>>)>>, <<Vec(<<0, 1>>)>> >> }

\* Data of shape (n_trials, 1, 3); the last has one trial more than the codes.
XChoices ==
    { << <<Vec(<<1, 0, 0>>)>> >>,
      << <<Vec(<<1, 2, 1>>)>> >>,
      << <<Vec(<<1, 0, 0>>)>>, <<Vec(<<0, 1, 1>>)>> >> }

\* Rows (u, v1, v2) of the initial atoms.
UVRows == { Vec(<<1, 1, 0>>), <<Half, Half, Half>>, Vec(<<2, 0, 1>>) }

UVChoices(n_atoms) ==
    IF n_atoms = 1 THEN { <<r>> : r \in UVRows }
    ELSE { <<r, Vec(<<0, 1, 0>>)>> : r \in UVRows }

step_default == FDiv(Precision, One, Num(100))

Init ==
    /\ \E z \in ZChoices, x \in XChoices :
         \E u \in UVChoices(Len(z)) :
            /\ heap = <<x, z, u>>
            /\ args0 = <<x, z, u>>
    /\ X = 1 /\ Z = 2 /\ uv_hat0 = 3
    /\ max_iter \in 0..MaxIter
    /\ step_size \in {step_default, <<1, -2>>, <<1, 1>>}
    /\ eps \in {None, One}
    /\ verbose \in 0..MaxVerbose
    /\ constants = None /\ uv_hat = 0 /\ grad = <<>> /\ f = Zero /\ ii = Unbound
    /\ pc = "L86" /\ stdout = <<>> /\ raised = "" /\ ret = 0
    /\ pre = <<>> /\ signals = <<>>
    /\ D = 0 /\ g_cached = <<>> /\ g_direct = <<>>

\* Lines 86-99.
L86 ==
    /\ pc = "L86"
    /\ constants' = _get_d_update_constants(Precision, heap[X], heap[Z])
    /\ pc' = "L101"
    /\ UNCHANGED <<heap, X, Z, uv_hat0, max_iter, step_size, eps, verbose, uv_hat,
                   grad, f, ii, stdout, raised, ret, args0, pre, signals,
                   D, g_cached, g_direct>>

\* Lines 101-103.
L101 ==
    /\ pc = "L101"
    /\ eps' = IF eps = None THEN float32_eps ELSE eps
    /\ heap' = ndarray_copy(heap, uv_hat0)[1]
    /\ uv_hat' = ndarray_copy(heap, uv_hat0)[2]
    /\ pc' = "L104"
    /\ UNCHANGED <<X, Z, uv_hat0, max_iter, step_size, verbose, constants,
                   grad, f, ii, stdout, raised, ret, args0, pre, signals,
                   D, g_cached, g_direct>>

\* Line 104: the next index is bound, or the range is exhausted and the else
\* clause of the loop runs.
L104 ==
    /\ pc = "L104"
    /\ IF range_next(ii, max_iter) # Unbound
       THEN ii' = range_next(ii, max_iter) /\ pc' = "L105"
       ELSE ii' = ii /\ pc' = "L112"
    /\ UNCHANGED <<heap, X, Z, uv_hat0, max_iter, step_size, eps, verbose, constants,
                   uv_hat, grad, f, stdout, raised, ret, args0, pre, signals,
                   D, g_cached, g_direct>>

L105 ==
    /\ pc = "L105"
    /\ grad' = _gradient_uv(Precision, heap[uv_hat], None, None, constants)
    /\ pre' = Append(pre, heap[uv_hat])
    /\ pc' = "L106"
    /\ UNCHANGED <<heap, X, Z, uv_hat0, max_iter, step_size, eps, verbose, constants,
                   uv_hat, f, ii, stdout, raised, ret, args0, signals,
                   D, g_cached, g_direct>>

\* Line 106: in place, on the object uv_hat refers to.
L106 ==
    /\ pc = "L106"
    /\ heap' = [heap EXCEPT ![uv_hat] = isub_step(Precision, heap[uv_hat], step_size, grad)]
    /\ pc' = "L107"
    /\ UNCHANGED <<X, Z, uv_hat0, max_iter, step_size, eps, verbose, constants,
                   uv_hat, grad, f, ii, stdout, raised, ret, args0, pre, signals,
                   D, g_cached, g_direct>>

\* Line 107: prox_uv returns a new array, and uv_hat is bound to it.
L107 ==
    /\ pc = "L107"
    /\ heap' = Append(heap, prox_uv(Precision, heap[uv_hat]))
    /\ uv_hat' = Len(heap) + 1
    /\ pc' = "L108"
    /\ UNCHANGED <<X, Z, uv_hat0, max_iter, step_size, eps, verbose, constants,
                   grad, f, ii, stdout, raised, ret, args0, pre, signals,
                   D, g_cached, g_direct>>

\* Faulty variant of L108: the signal taken from a gradient evaluated after the
\* step and the projection.
L108_after_step ==
    /\ pc = "L108"
    /\ f' = sum_abs(Precision, _gradient_uv(Precision, heap[uv_hat], None, None, constants))
    /\ signals' = Append(signals, f')
    /\ pc' = "L109"
    /\ UNCHANGED <<heap, X, Z, uv_hat0, max_iter, step_size, eps, verbose, constants,
                   uv_hat, grad, ii, stdout, raised, ret, args0, pre,
                   D, g_cached, g_direct>>

L108 ==
    /\ pc = "L108"
    /\ f' = sum_abs(Precision, grad)
    /\ signals' = Append(signals, sum_abs(Precision, grad))
    /\ pc' = "L109"
    /\ UNCHANGED <<heap, X, Z, uv_hat0, max_iter, step_size, eps, verbose, constants,
                   uv_hat, grad, ii, stdout, raised, ret, args0, pre,
                   D, g_cached, g_direct>>

\* Lines 109-110: break leaves the loop past its else clause.
L109 ==
    /\ pc = "L109"
    /\ pc' = IF converged(f, eps) THEN "L113" ELSE "L104"
    /\ UNCHANGED <<heap, X, Z, uv_hat0, max_iter, step_size, eps, verbose, constants,
                   uv_hat, grad, f, ii, stdout, raised, ret, args0, pre, signals,
                   D, g_cached, g_direct>>

did_not_converge == "update_uv did not converge"

\* Lines 111-112.
L112 ==
    /\ pc = "L112"
    /\ stdout' = Append(stdout, did_not_converge)
    /\ pc' = "L113"
    /\ UNCHANGED <<heap, X, Z, uv_hat0, max_iter, step_size, eps, verbose, constants,
                   uv_hat, grad, f, ii, raised, ret, args0, pre, signals,
                   D, g_cached, g_direct>>

\* Lines 113-114: '%d iterations' % (ii + 1) reads ii, which is bound only once
\* the loop has run an iteration.
L113 ==
    /\ pc = "L113"
    /\ IF verbose > 1
       THEN IF ii = Unbound
            THEN raised' = "UnboundLocalError" /\ pc' = "raised" /\ stdout' = stdout
            ELSE /\ stdout' = Append(stdout, ToString(ii + 1) \o " iterations")
                 /\ pc' = "L115" /\ raised' = raised
       ELSE pc' = "L115" /\ stdout' = stdout /\ raised' = raised
    /\ UNCHANGED <<heap, X, Z, uv_hat0, max_iter, step_size, eps, verbose, constants,
                   uv_hat, grad, f, ii, ret, args0, pre, signals,
                   D, g_cached, g_direct>>

L115 ==
    /\ pc = "L115"
    /\ ret' = uv_hat
    /\ pc' = "done"
    /\ UNCHANGED <<heap, X, Z, uv_hat0, max_iter, step_size, eps, verbose, constants,
                   uv_hat, grad, f, ii, stdout, raised, args0, pre, signals,
                   D, g_cached, g_direct>>

Next ==
    \/ L86 \/ L101 \/ L104 \/ L105 \/ L106 \/ L107 \/ L108 \/ L109
    \/ L112 \/ L113 \/ L115

Spec == Init /\ [][Next]_vars

----------------------------------------------------------------------------
(* Properties of update_uv *)

\* eps as lines 101-102 resolve it.
eps_used == IF eps = None THEN float32_eps ELSE eps

\* The loop has been left (by break or by exhausting the range).
LoopLeft == pc \in {"L112", "L113", "L115", "done", "raised"}

NoSignalWithin(n) == \A j \in 1..n : ~Leq(signals[j], eps_used)

Printed(msg) == \E j \in 1..Len(stdout) : stdout[j] = msg

\* C1: the loop runs exactly as many iterations as the index of the first
\* signal <= eps, or max_iter when no signal within the budget is <= eps; it
\* never runs more than max_iter iterations and never starts another iteration
\* after a signal <= eps.
C1_IterationCount ==
    /\ Len(pre) <= max_iter
    /\ NoSignalWithin(Len(pre) - 1)
    /\ LoopLeft =>
         /\ Len(signals) = Len(pre)
         /\ (Len(pre) >= 1 => ii + 1 = Len(pre))
         /\ \/ Len(pre) >= 1 /\ Leq(signals[Len(pre)], eps_used)
            \/ Len(pre) = max_iter /\ NoSignalWithin(max_iter)

\* C1 witness: a call left its loop by break on its second iteration with budget
\* to spare.
C1_Witness ==
    /\ pc = "done" /\ Len(pre) = 2 /\ max_iter > 2
    /\ Leq(signals[2], eps_used) /\ ~Leq(signals[1], eps_used)

\* C2: a call that exhausts its budget is non-fatal whatever max_iter >= 0 and
\* verbose are: no error is raised, the warning is printed and the last
\* parameters are returned; and the warning is printed in that case only.
C2_NonFatalExhaustion ==
    pc \in {"done", "raised"} =>
        /\ raised = ""
        /\ ret = uv_hat
        /\ Printed(did_not_converge) <=> NoSignalWithin(Len(signals))

\* C3: the caller's uv_hat0, Z and X hold the values they held when the call was
\* made, in every state of the call, and the array updated in place is none of
\* them.
C3_InputsUnchanged ==
    /\ heap[X] = args0[1]
    /\ heap[Z] = args0[2]
    /\ heap[uv_hat0] = args0[3]
    /\ uv_hat # 0 => uv_hat \notin {X, Z, uv_hat0}

\* C3 witness: a call returned parameters that differ from uv_hat0 after two
\* in-place updates.
C3_Witness == pc = "done" /\ Len(pre) >= 2 /\ heap[ret] # heap[uv_hat0]

\* 8 units of roundoff: the distance from 1 within which the computed norm of a
\* normalised row of up to 4 entries lies.
Tol == <<1, 3 - Precision>>

NearOne(x) == Leq(FSub(0, One, Tol), x) /\ Leq(x, FAdd(0, One, Tol))

\* The array the last projection was applied to: the object updated in place
\* just before the returned object was allocated.
last_stepped == heap[ret - 1]

\* C5 as claimed: every row of the array returned has norm <= 1, and norm 1 when
\* its norm exceeded 1 before the last projection.
C5_UnitNormOnReturn ==
    pc = "done" =>
        \A k \in 1..Len(heap[ret]) :
            /\ Leq(RowNorm(Precision, heap[ret][k]), One)
            /\ (Len(pre) >= 1 /\ Less(One, RowNorm(Precision, last_stepped[k])))
                  => RowNorm(Precision, heap[ret][k]) = One

\* C5 amended: after a call that ran at least one iteration, every row returned
\* has norm <= 1 up to rounding (at most 1 + Tol), and norm 1 up to rounding
\* when its norm exceeded 1 before the last projection; a call with max_iter = 0
\* returns a copy of uv_hat0, whatever its norms.
C5_UnitNormAfterIteration ==
    pc = "done" =>
        IF Len(pre) >= 1
        THEN \A k \in 1..Len(heap[ret]) :
                /\ Leq(RowNorm(Precision, heap[ret][k]), FAdd(0, One, Tol))
                /\ Less(One, RowNorm(Precision, last_stepped[k]))
                      => NearOne(RowNorm(Precision, heap[ret][k]))
        ELSE max_iter = 0 /\ heap[ret] = args0[3]

\* C5 witness: a returned row was outside the unit ball before the last
\* projection.
C5_Witness ==
    /\ pc = "done" /\ Len(pre) >= 2
    /\ \E k \in 1..Len(heap[ret]) : Less(One, RowNorm(Precision, last_stepped[k]))

\* C10: every iteration run, the converging one included, leaves
\* prox_uv(uv - step_size * grad(uv)) for the uv its gradient was evaluated at
\* (stated where the iteration reaches its test, line 109), its signal is the sum
\* of the absolute values of that same gradient, and the array returned is the
\* result of the last such update.
C10_StepThenTest ==
    /\ pc \in {"L109", "done"} /\ Len(pre) >= 1 =>
         LET uv == pre[Len(pre)]
             g  == _gradient_uv(Precision, uv, None, None, constants)
         IN  /\ grad = g
             /\ Len(signals) = Len(pre)
             /\ signals[Len(pre)] = sum_abs(Precision, g)
             /\ f = signals[Len(pre)]
             /\ heap[uv_hat] = prox_uv(Precision, isub_step(Precision, uv, step_size, g))
    /\ pc = "L106" /\ Len(pre) >= 2 => pre[Len(pre)] = heap[uv_hat]
    /\ pc = "done" => ret = uv_hat

\* C10 witness: a call converged and returned parameters that are not the ones
\* its last gradient was measured at.
C10_Witness ==
    /\ pc = "done" /\ Len(pre) >= 1
    /\ Leq(signals[Len(pre)], eps_used)
    /\ heap[ret] # pre[Len(pre)]

----------------------------------------------------------------------------
(* Calls of prox_uv: once on an input, then on its own result *)

\* Entries k / 2 for |k| <= ProxGrid.
ProxGrid == 3

ProxEntries == { Canon(k, -1) : k \in (-ProxGrid)..ProxGrid }

ProxRows == { <<a, b, c>> : a \in ProxEntries, b \in ProxEntries, c \in ProxEntries }

ProxInputs ==
    { <<r>> : r \in ProxRows }
      \cup { <<r, s>> : r \in ProxRows, s \in {Vec(<<0, 0, 0>>), <<Half, Half, Neg(Half)>>, <<Half, One, Neg(One)>>} }

\* The variables of update_uv and of the gradient calls, at rest.
NoUpdateCall ==
    /\ X = 0 /\ Z = 0 /\ uv_hat0 = 0 /\ max_iter = 0 /\ step_size = Zero
    /\ eps = None /\ verbose = 0 /\ uv_hat = 0 /\ grad = <<>> /\ f = Zero
    /\ ii = Unbound /\ stdout = <<>> /\ pre = <<>> /\ signals = <<>>

InitProx ==
    /\ \E uv \in ProxInputs : heap = <<uv>> /\ args0 = <<uv>>
    /\ pc = "prox" /\ ret = 0 /\ raised = ""
    /\ NoUpdateCall
    /\ constants = None /\ D = 0 /\ g_cached = <<>> /\ g_direct = <<>>

\* prox_uv(uv): the result is a new array.
ProxOnce ==
    /\ pc = "prox"
    /\ heap' = Append(heap, prox_uv(Precision, heap[1]))
    /\ ret' = Len(heap) + 1
    /\ pc' = "prox_again"
    /\ UNCHANGED <<X, Z, uv_hat0, max_iter, step_size, eps, verbose, constants,
                   uv_hat, grad, f, ii, stdout, raised, args0, pre, signals,
                   D, g_cached, g_direct>>

\* prox_uv(prox_uv(uv))
ProxAgain ==
    /\ pc = "prox_again"
    /\ heap' = Append(heap, prox_uv(Precision, heap[ret]))
    /\ ret' = Len(heap) + 1
    /\ pc' = "prox_done"
    /\ UNCHANGED <<X, Z, uv_hat0, max_iter, step_size, eps, verbose, constants,
                   uv_hat, grad, f, ii, stdout, raised, args0, pre, signals,
                   D, g_cached, g_direct>>

NextProx == ProxOnce \/ ProxAgain

SpecProx == InitProx /\ [][NextProx]_vars

\* C7 as claimed: each row of the result is the input row unchanged when its
\* norm is <= 1 and has norm exactly 1 when the input row's norm is > 1, so
\* every row of the result has norm <= 1; the result is a new array and the
\* input is not modified.
C7_ProxExactUnitNorm ==
    pc # "prox" =>
        /\ heap[1] = args0[1] /\ Len(heap) >= 2
        /\ \A k \in 1..Len(heap[1]) :
              /\ Leq(RowNorm(Precision, heap[1][k]), One) => heap[2][k] = heap[1][k]
              /\ Less(One, RowNorm(Precision, heap[1][k]))
                    => RowNorm(Precision, heap[2][k]) = One
              /\ Leq(RowNorm(Precision, heap[2][k]), One)

\* C7 amended: each row of the result is the input row divided entry by entry
\* by max(1, its computed norm), each quotient rounded; a row whose computed
\* norm is <= 1 is returned unchanged, a row whose computed norm is > 1 is
\* returned with norm 1 up to rounding (within Tol of 1), so every row of the
\* result has norm at most 1 + Tol; the result is a new array and the input is
\* not modified.
C7_ProxRoundedUnitNorm ==
    pc # "prox" =>
        /\ heap[1] = args0[1] /\ Len(heap) >= 2
        /\ \A k \in 1..Len(heap[1]) :
              LET n == RowNorm(Precision, heap[1][k])
              IN  /\ Leq(n, One) => heap[2][k] = heap[1][k]
                  /\ Less(One, n) =>
                        /\ \A j \in 1..Len(heap[1][k]) :
                              heap[2][k][j] = FDiv(Precision, heap[1][k][j], n)
                        /\ NearOne(RowNorm(Precision, heap[2][k]))
                  /\ Leq(RowNorm(Precision, heap[2][k]), FAdd(0, One, Tol))

\* C7 witness: prox_uv returned one row unchanged and rescaled another to a
\* norm that is not 1.
C7_Witness ==
    /\ pc = "prox_again" /\ Len(heap[1]) = 2
    /\ heap[2][2] = heap[1][2] /\ heap[1][2] # Vec(<<0, 0, 0>>)
    /\ Less(One, RowNorm(Precision, heap[1][1]))
    /\ RowNorm(Precision, heap[2][1]) # One

\* C8 as claimed: prox_uv(prox_uv(uv)) = prox_uv(uv), exactly.
C8_ProxIdempotent == pc = "prox_done" => heap[3] = heap[2]

\* |a - b| <= Tol * |b|
WithinTol(a, b) == Leq(FAbs(FSub(0, a, b)), FMul(0, Tol, FAbs(b)))

\* C8 amended: prox_uv(prox_uv(uv)) equals prox_uv(uv) exactly on every row
\* whose computed norm after the first projection is <= 1 (every row of uv of
\* norm <= 1 is one), and on the other rows, whose norm exceeds 1 by rounding
\* only, each entry is within Tol, relative to itself, of that of prox_uv(uv).
C8_ProxIdempotentUpToRounding ==
    pc = "prox_done" =>
        \A k \in 1..Len(heap[2]) :
            /\ Leq(RowNorm(Precision, heap[2][k]), One) => heap[3][k] = heap[2][k]
            /\ Leq(RowNorm(Precision, heap[1][k]), One) => heap[3][k] = heap[1][k]
            /\ \A j \in 1..Len(heap[2][k]) : WithinTol(heap[3][k][j], heap[2][k][j])

\* C8 witness: the second projection changed a row that the first had rescaled.
C8_Witness ==
    /\ pc = "prox_done"
    /\ \E k \in 1..Len(heap[2]) : heap[3][k] # heap[2][k] /\ heap[2][k] # heap[1][k]
    /\ \E k \in 1..Len(heap[2]) : heap[3][k] = heap[2][k] /\ heap[2][k] # heap[1][k]

----------------------------------------------------------------------------
(* Calls of _get_d_update_constants and of _gradient_d on both paths *)

\* Rows of the code, n_times_valid = 2.
ZRows == { Vec(<<1, 0>>), Vec(<<1, 2>>), Vec(<<-1, 1>>) }

\* Codes of shape (2, n_trials, 2), n_trials = 1 or 2.
ZInputs ==
    { << <<a>>, <<b>> >> : a \in ZRows, b \in ZRows }
      \cup { << <<a, b>>, <<c, d>> >> : a \in ZRows, b \in ZRows, c \in ZRows, d \in ZRows }

\* One trial of data, (n_chan, n_times): n_times = 3 or 4 (atoms of 2 or 3 taps),
\* one channel or two.
XTrials(n_times) ==
    IF n_times = 3
    THEN { <<Vec(<<1, 0, 0>>)>>, <<Vec(<<0, 1, -1>>)>> }
    ELSE { <<Vec(<<1, 0, 2, 0>>)>>, <<Vec(<<0, 1, 0, -1>>)>>,
           <<Vec(<<1, 1, 0, 0>>), Vec(<<0, 0, 2, 1>>)>> }

\* Data of 1 or 2 trials, every trial of one shape.
XInputs(n_times) ==
    { <<a>> : a \in XTrials(n_times) }
      \cup { ab \in { <<a, b>> : a \in XTrials(n_times), b \in XTrials(n_times) } :
                 Len(ab[1]) = Len(ab[2]) }

\* Atoms of shape (2, n_chan, n_times_atom).
DTaps(n_times_atom) ==
    IF n_times_atom = 2 THEN { Vec(<<1, 0>>), Vec(<<1, 2>>) }
    ELSE { Vec(<<0, 1, 0>>), Vec(<<1, -1, 2>>) }

DInputs(n_chan, n_times_atom) ==
    { << [c \in 1..n_chan |-> a], [c \in 1..n_chan |-> IF c = 1 THEN b ELSE a] >> :
        a \in DTaps(n_times_atom), b \in DTaps(n_times_atom) }

InitStats ==
    /\ \E n_times \in {3, 4} : \E z \in ZInputs, x \in XInputs(n_times) :
         \E d \in DInputs(Len(x[1]), n_times - 1) :
            /\ heap = <<x, z, d>>
            /\ args0 = <<x, z, d>>
    /\ X = 1 /\ Z = 2 /\ D = 3
    /\ pc = "constants" /\ ret = 0 /\ raised = ""
    /\ uv_hat0 = 0 /\ max_iter = 0 /\ step_size = Zero
    /\ eps = None /\ verbose = 0 /\ uv_hat = 0 /\ grad = <<>> /\ f = Zero
    /\ ii = Unbound /\ stdout = <<>> /\ pre = <<>> /\ signals = <<>>
    /\ constants = None /\ g_cached = <<>> /\ g_direct = <<>>

\* constants = _get_d_update_constants(X, Z): no statement of lines 118-143
\* compares X.shape[0] with Z.shape[1] or raises.
GetConstants ==
    /\ pc = "constants"
    /\ constants' = _get_d_update_constants(0, heap[X], heap[Z])
    /\ pc' = "cached"
    /\ UNCHANGED <<heap, X, Z, uv_hat0, max_iter, step_size, eps, verbose,
                   uv_hat, grad, f, ii, stdout, raised, ret, args0, pre, signals,
                   D, g_cached, g_direct>>

\* _gradient_d(D, constants=constants)
GradientCached ==
    /\ pc = "cached"
    /\ g_cached' = _gradient_d(0, heap[D], None, None, constants)
    /\ pc' = "direct"
    /\ UNCHANGED <<heap, X, Z, uv_hat0, max_iter, step_size, eps, verbose, constants,
                   uv_hat, grad, f, ii, stdout, raised, ret, args0, pre, signals,
                   D, g_direct>>

\* _gradient_d(D, X, Z)
GradientDirect ==
    /\ pc = "direct"
    /\ g_direct' = _gradient_d(0, heap[D], heap[X], heap[Z], None)
    /\ pc' = "stats_done"
    /\ UNCHANGED <<heap, X, Z, uv_hat0, max_iter, step_size, eps, verbose, constants,
                   uv_hat, grad, f, ii, stdout, raised, ret, args0, pre, signals,
                   D, g_cached>>

NextStats == GetConstants \/ GradientCached \/ GradientDirect

SpecStats == InitStats /\ [][NextStats]_vars

TrialsAgree == Len(heap[X]) = Len(heap[Z][1])

\* C4: when the trial counts of X and Z disagree, _get_d_update_constants fails
\* with an error and returns no statistics.
C4_TrialMismatchFailsFast ==
    (pc # "constants" /\ ~TrialsAgree) => (raised # "" /\ constants = None)

\* C6: over exact arithmetic, for X and Z of one trial count, the gradient of
\* the cached path equals that of the direct path, entry by entry.
C6_CachedEqualsDirect ==
    (pc = "stats_done" /\ TrialsAgree) => g_cached = g_direct

\* C6 witness: both paths returned one gradient, with entries that are not 0,
\* for two trials and two channels.
C6_Witness ==
    /\ pc = "stats_done" /\ TrialsAgree /\ Len(heap[X]) = 2 /\ Len(heap[X][1]) = 2
    /\ g_cached = g_direct
    /\ \A k \in 1..2 : \E c \in 1..2 : \E t \in 1..3 : g_cached[k][c][t] # Zero

\* n_times_atom, as line 122 derives it.
n_times_atom_of == Len(heap[X][1][1]) - Len(heap[Z][1][1]) + 1

\* C9: ZtZ[k0, k, t0 + t] = ZtZ[k, k0, t0 - t] for all atoms k0, k and lags
\* 0 <= t < n_times_atom (index t0 + 1 = n_times_atom is lag 0 here).
C9_ZtZSymmetry ==
    pc # "constants" =>
        /\ Len(constants.ZtZ) = Len(heap[Z])
        /\ \A k0 \in 1..Len(heap[Z]), k \in 1..Len(heap[Z]) :
              /\ Len(constants.ZtZ[k0][k]) = 2 * n_times_atom_of - 1
              /\ \A t \in 0..(n_times_atom_of - 1) :
                    constants.ZtZ[k0][k][n_times_atom_of + t]
                        = constants.ZtZ[k][k0][n_times_atom_of - t]

\* C9 witness: statistics whose lags +1 and -1 differ for a pair of atoms, and
\* whose lag 2 = n_times_valid is 0 on both sides.
C9_Witness ==
    /\ pc = "cached" /\ n_times_atom_of = 3
    /\ constants.ZtZ[1][2][4] # constants.ZtZ[1][2][2]
    /\ constants.ZtZ[1][2][4] = constants.ZtZ[2][1][2]
    /\ constants.ZtZ[1][2][5] = Zero /\ constants.ZtZ[2][1][1] = Zero
====
